---- MODULE Spec2Model ----
(***************************************************************************)
(* The tool-dispatch bridge of zabbix-mcp-chat:                            *)
(*   - ChatbotService (src/chatbot/app.py): cached tool catalog, model     *)
(*     driven tool selection, tool invocation, POST /chat;                 *)
(*   - the stateless bridge (src/chatbot/chatbot/app.py): two-transport    *)
(*     session negotiation, model selection with keyword fallback.         *)
(* Requests are coroutines: one action is the code a coroutine runs from   *)
(* one await to the next.  Remote calls (session open, list_tools, the     *)
(* model call, call_tool) succeed or fail nondeterministically.            *)
(***************************************************************************)
EXTENDS Integers, Sequences, FiniteSets, TLC

\* ------------------------------------------------------------------ bounds
\* Clock advances allowed in one behaviour.
MaxTicks == 2

\* ------------------------------------------------------- program constants
\* src/chatbot/app.py:80  "(now - self.cache_timestamp).seconds > 300"
FreshnessWindow == 300
\* datetime.timedelta normalises to (days, 0 <= seconds < 86400, microseconds)
SecondsPerDay == 24 * 60 * 60

\* ------------------------------------------------------------ JSON values
\* Python values are tagged records so that values of different types can
\* be compared: k is the type, v the payload.
None == [k |-> "null"]
JStr(s) == [k |-> "str", v |-> s]
JNum(n) == [k |-> "num", v |-> n]
JBool(b) == [k |-> "bool", v |-> b]
JArr(seq) == [k |-> "arr", v |-> seq]
\* f: a function from key strings to values
JObj(f) == [k |-> "obj", v |-> f]
EmptyDict == JObj(<<>>)

\* bool(x)
Truthy(x) ==
  CASE x.k = "null" -> FALSE
    [] x.k = "str"  -> x.v # ""
    [] x.k = "text" -> x.v # <<>>
    [] x.k = "num"  -> x.v # 0
    [] x.k = "bool" -> x.v
    [] x.k = "arr"  -> Len(x.v) > 0
    [] x.k = "obj"  -> DOMAIN x.v # {}

\* hash(x) does not raise TypeError
Hashable(x) == x.k \notin {"arr", "obj"}

IsDict(x) == x.k = "obj"
HasKey(d, key) == key \in DOMAIN d.v
\* d.get(key, default)
DictGet(d, key, default) == IF HasKey(d, key) THEN d.v[key] ELSE default
DictPut(f, key, val) == [x \in (DOMAIN f) \cup {key} |-> IF x = key THEN val ELSE f[x]]

\* ------------------------------------------------------------------- text
\* Model output is a sequence of lexical tokens: punctuation, JSON string
\* literals, JSON literals, whitespace, the code fences and prose words.
P(c) == [t |-> "punct", v |-> c]
Q(s) == [t |-> "str", v |-> s]
L(s) == [t |-> "lit", v |-> s]
W(s) == [t |-> "prose", v |-> s]
LB == P("{")
RB == P("}")
LS == P("[")
RS == P("]")
CO == P(":")
CM == P(",")
WS == [t |-> "ws", v |-> " "]
\* the leading Markdown fence with its json tag, and the bare fence
FenceJson == [t |-> "fence", v |-> "fence-json"]
Fence == [t |-> "fence", v |-> "fence"]

\* s[i:j] of a Python sequence, 1-based inclusive bounds
Slice(s, i, j) == IF i > j THEN <<>> ELSE SubSeq(s, i, j)

RECURSIVE LStrip(_)
LStrip(s) == IF s # <<>> /\ Head(s) = WS THEN LStrip(Tail(s)) ELSE s
RECURSIVE RStrip(_)
RStrip(s) == IF s # <<>> /\ s[Len(s)] = WS THEN RStrip(Slice(s, 1, Len(s) - 1)) ELSE s
\* str.strip()
Strip(s) == RStrip(LStrip(s))

\* ------------------------------------------------------------- json.loads
ParseFail == [ok |-> FALSE, val |-> None, nxt |-> 0]
ParseOk(val, nxt) == [ok |-> TRUE, val |-> val, nxt |-> nxt]

RECURSIVE SkipWs(_, _)
SkipWs(s, i) == IF i <= Len(s) /\ s[i] = WS THEN SkipWs(s, i + 1) ELSE i

LitValue(name) ==
  CASE name = "null"  -> None
    [] name = "true"  -> JBool(TRUE)
    [] name = "false" -> JBool(FALSE)
    [] name = "0"     -> JNum(0)
    [] name = "5"     -> JNum(5)

RECURSIVE ParseValue(_, _)
RECURSIVE ParseMembers(_, _, _)
RECURSIVE ParseElems(_, _, _)

\* After "{" or ",": a "key": value pair, then "," or "}".
ParseMembers(s, i, acc) ==
  LET j == SkipWs(s, i) IN
  IF j > Len(s) \/ s[j].t # "str" THEN ParseFail
  ELSE LET c == SkipWs(s, j + 1) IN
       IF c > Len(s) \/ s[c] # CO THEN ParseFail
       ELSE LET r == ParseValue(s, c + 1) IN
            IF ~r.ok THEN ParseFail
            ELSE LET e == SkipWs(s, r.nxt)
                     acc2 == DictPut(acc, s[j].v, r.val)
                 IN IF e > Len(s) THEN ParseFail
                    ELSE IF s[e] = RB THEN ParseOk(JObj(acc2), e + 1)
                    ELSE IF s[e] = CM THEN ParseMembers(s, e + 1, acc2)
                    ELSE ParseFail

\* After "[" or ",": a value, then "," or "]".
ParseElems(s, i, acc) ==
  LET r == ParseValue(s, i) IN
  IF ~r.ok THEN ParseFail
  ELSE LET e == SkipWs(s, r.nxt)
           acc2 == Append(acc, r.val)
       IN IF e > Len(s) THEN ParseFail
          ELSE IF s[e] = RS THEN ParseOk(JArr(acc2), e + 1)
          ELSE IF s[e] = CM THEN ParseElems(s, e + 1, acc2)
          ELSE ParseFail

ParseValue(s, i) ==
  LET j == SkipWs(s, i) IN
  IF j > Len(s) THEN ParseFail
  ELSE CASE s[j].t = "str" -> ParseOk(JStr(s[j].v), j + 1)
         [] s[j].t = "lit" -> ParseOk(LitValue(s[j].v), j + 1)
         [] s[j] = LB ->
              LET e == SkipWs(s, j + 1) IN
              IF e <= Len(s) /\ s[e] = RB THEN ParseOk(EmptyDict, e + 1)
              ELSE ParseMembers(s, j + 1, <<>>)
         [] s[j] = LS ->
              LET e == SkipWs(s, j + 1) IN
              IF e <= Len(s) /\ s[e] = RS THEN ParseOk(JArr(<<>>), e + 1)
              ELSE ParseElems(s, j + 1, <<>>)
         [] OTHER -> ParseFail

\* json.loads(s): [ok |-> the text is one JSON value, val |-> that value]
json_loads(s) ==
  LET r == ParseValue(s, 1) IN
  IF r.ok /\ SkipWs(s, r.nxt) > Len(s) THEN [ok |-> TRUE, val |-> r.val]
  ELSE [ok |-> FALSE, val |-> None]

\* ---------------------------------------------------------- the extractors
Positions(s, tok) == {i \in 1..Len(s) : s[i] = tok}
Min(S) == CHOOSE x \in S : \A y \in S : x <= y
Max(S) == CHOOSE x \in S : \A y \in S : x >= y

\* re.search(r'\{[^}]+\}', s): the leftmost "{" followed by at least one
\* character other than "}" and then a "}"; the match ends at the first "}".
\* [start, end] or <<>> when nothing matches.
SearchBraceNoClose(s) ==
  LET starts == {i \in Positions(s, LB) :
                   /\ i + 1 <= Len(s)
                   /\ s[i + 1] # RB
                   /\ \E j \in Positions(s, RB) : j > i}
  IN IF starts = {} THEN <<>>
     ELSE LET i == Min(starts) IN <<i, Min({j \in Positions(s, RB) : j > i})>>

\* re.search(r"\{.*\}", s, re.S): from the first "{" to the last "}".
SearchBraceGreedy(s) ==
  LET opens == Positions(s, LB)
      closes == Positions(s, RB)
  IN IF opens = {} \/ closes = {} \/ Max(closes) < Min(opens) THEN <<>>
     ELSE <<Min(opens), Max(closes)>>

\* (a _force_json that leaves the code fences in place)
ServiceForceJsonKeepingFences(raw) ==
  LET s2 == Strip(raw)
      direct == json_loads(s2)
      m == SearchBraceNoClose(s2)
  IN IF direct.ok THEN direct.val
     ELSE IF m = <<>> THEN None
     ELSE json_loads(Slice(s2, m[1], m[2])).val

\* ChatbotService._force_json: None or the parsed value
ServiceForceJson(raw) ==
  LET s0 == Strip(raw)
      s1 == IF s0 # <<>> /\ Head(s0) = FenceJson THEN Tail(s0) ELSE s0
      s2 == IF s1 # <<>> /\ s1[Len(s1)] = Fence THEN Slice(s1, 1, Len(s1) - 1) ELSE s1
      direct == json_loads(s2)
      m == SearchBraceNoClose(s2)
  IN IF direct.ok THEN direct.val
     ELSE IF m = <<>> THEN None
     ELSE json_loads(Slice(s2, m[1], m[2])).val

\* _force_json of the stateless bridge: None or the parsed value
BridgeForceJson(raw) ==
  LET m == SearchBraceGreedy(raw) IN
  IF m = <<>> THEN None ELSE json_loads(Slice(raw, m[1], m[2])).val

\* ------------------------------------------------------------ user text
\* A Python str whose characters matter is [k |-> "text", v |-> <characters>].
Text(chars) == [k |-> "text", v |-> chars]
Space == {" ", "\t", "\n"}

RECURSIVE LStripChars(_)
LStripChars(s) == IF s # <<>> /\ Head(s) \in Space THEN LStripChars(Tail(s)) ELSE s
RECURSIVE RStripChars(_)
RStripChars(s) ==
  IF s # <<>> /\ s[Len(s)] \in Space THEN RStripChars(Slice(s, 1, Len(s) - 1)) ELSE s
\* str.strip() on characters
StripChars(s) == RStripChars(LStripChars(s))

UpperToLower ==
  [A |-> "a", B |-> "b", C |-> "c", D |-> "d", E |-> "e", F |-> "f", G |-> "g",
   H |-> "h", I |-> "i", J |-> "j", K |-> "k", L |-> "l", M |-> "m", N |-> "n",
   O |-> "o", P |-> "p", Q |-> "q", R |-> "r", S |-> "s", T |-> "t", U |-> "u",
   V |-> "v", W |-> "w", X |-> "x", Y |-> "y", Z |-> "z"]
\* str.lower()
Lower(s) == [i \in 1..Len(s) |-> IF s[i] \in DOMAIN UpperToLower THEN UpperToLower[s[i]] ELSE s[i]]
\* sub in s
Contains(s, sub) == \E i \in 0..(Len(s) - Len(sub)) : SubSeq(s, i + 1, i + Len(sub)) = sub

\* ------------------------------------------------------------- decisions
Decision(tool, arguments) == JObj([tool |-> tool, arguments |-> arguments])
NoDecision == Decision(None, EmptyDict)

\* (a keyword fallback that looks for "host" first)
HeuristicSelectHostFirst(user_prompt) ==
  LET s == Lower(user_prompt) IN
  IF Contains(s, <<"h", "o", "s", "t">>)
    THEN Decision(JStr("host_get"), EmptyDict)
  ELSE IF Contains(s, <<"v", "e", "r", "s", "i", "o", "n">>) \/ Contains(s, <<"a", "p", "i">>)
    THEN Decision(JStr("apiinfo_version"), EmptyDict)
  ELSE IF \/ Contains(s, <<"p", "r", "o", "b", "l", "e", "m">>)
          \/ Contains(s, <<"i", "n", "c", "i", "d", "e", "n", "t">>)
          \/ Contains(s, <<"a", "l", "e", "r", "t">>)
    THEN Decision(JStr("problem_get"),
                  JObj([recent |-> JBool(TRUE), limit |-> JNum(5)]))
  ELSE NoDecision

\* The keyword fallback of the stateless bridge (_choose_tool_with_ollama)
HeuristicSelect(user_prompt) ==
  LET s == Lower(user_prompt) IN
  IF Contains(s, <<"v", "e", "r", "s", "i", "o", "n">>) \/ Contains(s, <<"a", "p", "i">>)
    THEN Decision(JStr("apiinfo_version"), EmptyDict)
  ELSE IF \/ Contains(s, <<"p", "r", "o", "b", "l", "e", "m">>)
          \/ Contains(s, <<"i", "n", "c", "i", "d", "e", "n", "t">>)
          \/ Contains(s, <<"a", "l", "e", "r", "t">>)
    THEN Decision(JStr("problem_get"),
                  JObj([recent |-> JBool(TRUE), limit |-> JNum(5)]))
  ELSE IF Contains(s, <<"h", "o", "s", "t">>)
    THEN Decision(JStr("host_get"), EmptyDict)
  ELSE NoDecision

\* What the model call did: it raised, or it answered with the text raw.
ModelRaised == [raised |-> TRUE, raw |-> <<>>]
ModelSaid(raw) == [raised |-> FALSE, raw |-> raw]

\* ChatbotService.choose_tool_with_ollama, given the outcome of ollama.chat
ServiceChoose(tools, m) ==
  IF tools = {} THEN NoDecision
  ELSE IF m.raised
    THEN JObj([tool |-> None, arguments |-> EmptyDict, error |-> JStr("ollama error")])
  ELSE LET v == ServiceForceJson(Strip(m.raw)) IN
       IF Truthy(v) THEN v ELSE NoDecision

\* _choose_tool_with_ollama of the stateless bridge, given an answer of the
\* model (a raising model call propagates: see BridgeList)
BridgeChoose(user_prompt, m) ==
  LET parsed == BridgeForceJson(Strip(m.raw)) IN
  IF IsDict(parsed) /\ HasKey(parsed, "tool") /\ HasKey(parsed, "arguments")
    THEN parsed
  ELSE HeuristicSelect(user_prompt)

\* ------------------------------------------------------------ the inputs
\* Request bodies of POST /chat: not a JSON object, or an object whose
\* "message" is absent or has the value msg.
NotAnObject == [isObj |-> FALSE, hasMsg |-> FALSE, msg |-> None]
NoMessage == [isObj |-> TRUE, hasMsg |-> FALSE, msg |-> None]
Message(v) == [isObj |-> TRUE, hasMsg |-> TRUE, msg |-> v]

ListAllHosts == <<"L", "i", "s", "t", " ", "a", "l", "l", " ", "h", "o", "s", "t", "s">>
VersionOfHost ==
  <<" ", "A", "P", "I", " ", "v", "e", "r", "s", "i", "o", "n", " ", "o", "f", " ",
    "h", "o", "s", "t", "\n">>
Greeting == <<"h", "i">>
HostAlerts == <<"H", "o", "s", "t", " ", "A", "L", "E", "R", "T", "s">>
ApiIncident == <<"a", "p", "i", " ", "i", "n", "c", "i", "d", "e", "n", "t">>

Bodies ==
  {NotAnObject, NoMessage, Message(None), Message(Text(<<>>)),
   Message(Text(<<" ", "\t">>)), Message(JNum(0)), Message(JNum(5)),
   Message(Text(ListAllHosts)), Message(Text(VersionOfHost)), Message(Text(Greeting)),
   Message(Text(HostAlerts)), Message(Text(ApiIncident))}

\* What list_tools of the remote host may answer: catalogs by tool name.
RemoteCatalogs == {{}, {"host_get"}, {"host_get", "apiinfo_version"}}

HostGetReply ==
  <<LB, Q("tool"), CO, WS, Q("host_get"), CM, WS, Q("arguments"), CO, WS, LB, RB, RB>>
ModelReplies ==
  {HostGetReply,
   <<WS>> \o HostGetReply \o <<WS>>,
   <<FenceJson, WS>> \o HostGetReply \o <<WS, Fence>>,
   <<W("Sure"), CO, WS>> \o HostGetReply,
   <<LB, Q("tool"), CO, Q("template_get"), CM, Q("arguments"), CO, LB, RB, RB>>,
   <<LB, Q("tool"), CO, L("null"), CM, Q("arguments"), CO, LB, RB, RB>>,
   <<LB, Q("tool"), CO, LS, Q("host_get"), RS, CM, Q("arguments"), CO, LB, RB, RB>>,
   <<LB, Q("tool"), CO, L("5"), CM, Q("arguments"), CO, LB, RB, RB>>,
   <<LB, Q("tool"), CO, Q("host_get"), RB>>,
   <<LB, Q("arguments"), CO, LB, Q("limit"), CO, L("5"), RB, RB>>,
   <<LS, Q("host_get"), RS>>,
   <<L("null")>>,
   <<W("no"), WS, W("idea")>>,
   <<>>}
\* json.dumps(v) with its default separators ", " and ": ", as the prompts
\* of both applications encode the few-shot answers
NumLit(n) == IF n = 0 THEN "0" ELSE "5"
RECURSIVE Dumps(_)
RECURSIVE DumpsMembers(_, _)
RECURSIVE DumpsElems(_)
DumpsMembers(f, keys) ==
  LET key == CHOOSE x \in keys : TRUE
      one == <<Q(key), CO, WS>> \o Dumps(f[key])
  IN IF keys = {key} THEN one
     ELSE one \o <<CM, WS>> \o DumpsMembers(f, keys \ {key})
DumpsElems(seq) ==
  IF Len(seq) = 1 THEN Dumps(seq[1])
  ELSE Dumps(Head(seq)) \o <<CM, WS>> \o DumpsElems(Tail(seq))
Dumps(x) ==
  CASE x.k = "null" -> <<L("null")>>
    [] x.k = "bool" -> <<L(IF x.v THEN "true" ELSE "false")>>
    [] x.k = "num"  -> <<L(NumLit(x.v))>>
    [] x.k = "str"  -> <<Q(x.v)>>
    [] x.k = "arr"  -> IF x.v = <<>> THEN <<LS, RS>>
                       ELSE <<LS>> \o DumpsElems(x.v) \o <<RS>>
    [] x.k = "obj"  -> IF DOMAIN x.v = {} THEN <<LB, RB>>
                       ELSE <<LB>> \o DumpsMembers(x.v, DOMAIN x.v) \o <<RB>>
\* the text inside a Markdown json fence, on lines of its own
Fenced(s) == <<FenceJson, WS>> \o s \o <<WS, Fence>>

\* Objects a model may answer with, encoded: a decision with nested
\* arguments, an object that is no decision, and the empty object.
HostGetWithArguments ==
  Decision(JStr("host_get"),
           JObj([output |-> JArr(<<JStr("hostid"), JStr("name")>>), limit |-> JNum(5)]))
AnsweredObjects ==
  {HostGetWithArguments, JObj([ok |-> JBool(TRUE), note |-> None]), EmptyDict}
EncodedReplies ==
  {Dumps(O) : O \in AnsweredObjects} \cup {Fenced(Dumps(O)) : O \in AnsweredObjects}

ModelOutcomes == {ModelRaised} \cup {ModelSaid(raw) : raw \in ModelReplies \cup EncodedReplies}

\* Results of call_tool: structuredContent (None when absent) and the
\* content fragments, each with a text or without one.
Fragment(chars) == [hasText |-> TRUE, text |-> chars]
ImageFragment == [hasText |-> FALSE, text |-> <<>>]
CallResult(structured, content) == [structuredContent |-> structured, content |-> content]
CallResults ==
  {CallResult(JObj([hosts |-> JNum(5)]), <<>>),
   CallResult(EmptyDict, <<Fragment(<<"o", "k">>)>>),
   CallResult(None, <<Fragment(<<"a">>), ImageFragment, Fragment(<<"b">>)>>),
   CallResult(None, <<ImageFragment>>),
   CallResult(None, <<>>)}

\* ------------------------------------------------------------- responses
\* Fixed and formatted explanatory strings are named, not spelled out.
Msg(id) == [k |-> "msg", v |-> id]
TextPayload(x) == [k |-> "text", v |-> x]
StructuredPayload(x) == [k |-> "structured", v |-> x]

NoResponse ==
  [kind |-> "none", status |-> 0, choice |-> None, result |-> None, error |-> None,
   listed |-> FALSE, available_tools |-> {}]
\* JSONResponse(envelope)
Envelope(choice, result, error) ==
  [kind |-> "envelope", status |-> 200, choice |-> choice, result |-> result,
   error |-> error, listed |-> FALSE, available_tools |-> {}]
\* the no_tool_selected envelope of ChatbotService, with its tool list
EnvelopeListing(choice, result, error, tools) ==
  [kind |-> "envelope", status |-> 200, choice |-> choice, result |-> result,
   error |-> error, listed |-> TRUE, available_tools |-> tools]
\* HTTPException / JSONResponse(status_code=code)
HttpError(code, detail) ==
  [kind |-> "http_error", status |-> code, choice |-> None, result |-> None,
   error |-> JStr(detail), listed |-> FALSE, available_tools |-> {}]
\* the return value of a direct get_tools call
CatalogReturned(tools) ==
  [kind |-> "catalog", status |-> 0, choice |-> None, result |-> None, error |-> None,
   listed |-> TRUE, available_tools |-> tools]

\* [c.text for c in (res.content or []) if hasattr(c, "text")]
RECURSIVE Texts(_)
Texts(content) ==
  IF content = <<>> THEN <<>>
  ELSE IF Head(content).hasText THEN <<Head(content).text>> \o Texts(Tail(content))
  ELSE Texts(Tail(content))
\* "\n".join(texts)
RECURSIVE Join(_)
Join(texts) ==
  IF texts = <<>> THEN <<>>
  ELSE IF Len(texts) = 1 THEN Head(texts)
  ELSE Head(texts) \o <<"\n">> \o Join(Tail(texts))

\* ChatbotService.run_query: the payload of a successful call
ServicePayload(res) ==
  IF Truthy(res.structuredContent) THEN StructuredPayload(res.structuredContent)
  ELSE LET texts == Texts(res.content) IN
       TextPayload(IF texts # <<>> THEN Text(Join(texts)) ELSE Msg("No content returned"))

\* _run_query of the stateless bridge: the payload of a successful call
BridgePayload(res) ==
  IF res.structuredContent # None THEN StructuredPayload(res.structuredContent)
  ELSE LET texts == Texts(res.content) IN
       TextPayload(IF texts # <<>> THEN Text(Join(texts)) ELSE None)

\* ------------------------------------------------------------- the state
Procs == {"r1", "r2"}
\* (a bridge that tries SSE first)
SseFirst == <<"sse", "streamable_http">>

\* the transports of the bridge, in the order of its loop:
\* "for client in (streamablehttp_client, sse_client)"
BridgeTransports == <<"streamable_http", "sse">>
\* the one transport of the service: "client = streamablehttp_client(MCP_URL)"
ServiceTransports == <<"streamable_http">>
\* How far the clock may move between two steps (seconds).
Advances == {FreshnessWindow, FreshnessWindow + 1, SecondsPerDay}

VARIABLES
  app,              \* the program this process runs: the service
                    \* (src/chatbot/app.py), the bridge
                    \* (src/chatbot/chatbot/app.py) or the test script
                    \* (src/jump-home/app/test_script.py)
  mcp_enabled,      \* MCP_ENABLED, read once from the environment
  tools_cache,      \* ChatbotService.tools_cache: [some, names]
  cache_timestamp,  \* ChatbotService.cache_timestamp: [some, t]
  mcp_available,    \* ChatbotService.mcp_available
  now,              \* datetime.now(), in seconds
  ticks,            \* clock advances so far
  req               \* the coroutine of each request in flight

vars == <<app, mcp_enabled, tools_cache, cache_timestamp, mcp_available, now, ticks, req>>

Absent == [some |-> FALSE, names |-> {}]
Cached(names) == [some |-> TRUE, names |-> names]
NoTime == [some |-> FALSE, t |-> 0]
At(t) == [some |-> TRUE, t |-> t]

\* A coroutine: where it is suspended (pc), its locals, and a record of the
\* remote calls the request has made so far: pre (the cache when the request
\* began), attempts and outcomes (the transports tried by the session
\* establishment under way or last finished, and how each attempt ended),
\* opens (session establishments begun), lists (list_tools calls), stores
\* (cache replacements), model (model calls), calls (call_tool calls), live
\* (session contexts entered and not exited), listed_on and called_on (the
\* sessions, numbered by opens, on which the catalog was listed and a tool
\* was called), res (what call_tool returned, if it returned).  For
\* connect_and_run of the test script: candidates (its list of base URLs),
\* tried (the attempts made, each a base and a transport), ended (how each
\* attempt's connection ended) and last_err (its variable of that name).
\* exited tells whether the session object the coroutine holds has had its
\* session context or its transport context exited, and stale lists the
\* operations issued on a session in that condition.
Idle ==
  [pc |-> "idle", op |-> "none", ctx |-> "none", body |-> NotAnObject,
   user_msg |-> <<>>, force_refresh |-> FALSE,
   t0 |-> 0, tools |-> {}, choice |-> None, tool_name |-> None, args |-> None,
   resp |-> NoResponse,
   pre |-> [cache |-> Absent, stamp |-> NoTime],
   attempts |-> <<>>, outcomes |-> <<>>, opens |-> 0, lists |-> 0, stores |-> 0,
   model |-> <<>>, calls |-> <<>>, live |-> 0, listed_on |-> <<>>, called_on |-> <<>>,
   res |-> CallResult(None, <<>>),
   candidates |-> <<>>, tried |-> <<>>, ended |-> <<>>, last_err |-> "none",
   exited |-> FALSE, stale |-> <<>>]

\* an operation is issued on the session the coroutine holds
Issued(r, operation) ==
  [r EXCEPT !.stale = IF r.exited THEN Append(@, operation) ELSE @]

Init ==
  /\ app \in {"service", "bridge", "script"}
  /\ mcp_enabled \in (IF app = "service" THEN BOOLEAN ELSE {TRUE})
  /\ tools_cache = Absent
  /\ cache_timestamp = NoTime
  /\ mcp_available = FALSE
  /\ now = 0
  /\ ticks = 0
  /\ req = [p \in Procs |-> Idle]

Done(r, resp) == [r EXCEPT !.pc = "done", !.resp = resp]

\* a request arrives
Arrived(op, body) ==
  [Idle EXCEPT !.op = op, !.body = body,
               !.pre = [cache |-> tools_cache, stamp |-> cache_timestamp]]

\* ------------------------------------------------- ChatbotService (service)
\* timedelta.seconds: the seconds field of the normalised difference
TimedeltaSeconds(d) == d % SecondsPerDay

\* (a get_tools that tests "not self.tools_cache": an empty catalog is
\* fetched again on every call)
NeedsRefreshWhenEmpty(cache, stamp, force_refresh, t) ==
  \/ ~cache.some
  \/ cache.names = {}
  \/ force_refresh
  \/ (stamp.some /\ (t - stamp.t) % SecondsPerDay > FreshnessWindow)

\* the condition of get_tools that starts a refresh
NeedsRefresh(cache, stamp, force_refresh, t) ==
  \/ ~cache.some
  \/ force_refresh
  \/ (stamp.some /\ TimedeltaSeconds(t - stamp.t) > FreshnessWindow)

\* "self.tools_cache or {}"
CacheOrEmpty(cache) == IF cache.some THEN cache.names ELSE {}

\* get_mcp_session from its first await on: the coroutine waits for the
\* transport to open
OpenSession(r, ctx) ==
  [r EXCEPT !.pc = "open", !.ctx = ctx, !.opens = @ + 1, !.exited = FALSE,
            !.attempts = <<ServiceTransports[1]>>, !.outcomes = <<>>]

\* run_query, lines 191-192: the decision is stored with its two fields
\* (a decision that is no dict has none: see ServiceDispatch)
Decided(r, tools, choice, m) ==
  [r EXCEPT !.tools = tools, !.choice = choice, !.model = Append(@, m),
            !.tool_name = IF IsDict(choice) THEN DictGet(choice, "tool", None) ELSE None,
            !.args = IF IsDict(choice) THEN DictGet(choice, "arguments", EmptyDict)
                     ELSE None]

\* the outer "except Exception" of run_query
QueryFailed(r, e) ==
  Done(r, Envelope(None, TextPayload(Msg("Query processing failed")), JStr(e)))

\* "tool_name in tools" for a hashable tool_name
InCatalog(tool_name, tools) == tool_name.k = "str" /\ tool_name.v \in tools

ServiceRejected(r) ==
  Done(r, EnvelopeListing(r.choice, TextPayload(Msg("No suitable tool found")),
                          JStr("no_tool_selected"), r.tools))

\* run_query, lines 191-204: from the decision to the next await.
\* choice.get raises AttributeError when the decision is no dict, and
\* "tool_name not in tools" raises TypeError for an unhashable tool_name.
ServiceDispatch(r) ==
  IF ~IsDict(r.choice) THEN QueryFailed(r, "AttributeError")
  ELSE IF ~Truthy(r.tool_name) THEN ServiceRejected(r)
  ELSE IF ~Hashable(r.tool_name) THEN QueryFailed(r, "TypeError")
  ELSE IF ~InCatalog(r.tool_name, r.tools) THEN ServiceRejected(r)
  ELSE OpenSession(r, "invoke")

\* (a run_query that reports every empty catalog as mcp_unavailable)
RunQueryUnavailableWhenEmpty(r, tools, m) ==
  IF tools = {} THEN
    Done(r, Envelope(NoDecision, TextPayload(Msg("MCP server is not available")),
                     JStr("mcp_unavailable")))
  ELSE ServiceDispatch(Decided(r, tools, ServiceChoose(tools, m), m))

\* run_query between "tools = await self.get_tools()" and its next await;
\* m is what the model call does if it is made
RunQueryWithTools(r, tools, m) ==
  IF tools = {} /\ mcp_enabled THEN
    Done(r, Envelope(NoDecision, TextPayload(Msg("MCP server is not available")),
                     JStr("mcp_unavailable")))
  ELSE IF tools = {} THEN
    Done(r, Envelope(NoDecision, TextPayload(Msg("MCP functionality is disabled")),
                     JStr("mcp_disabled")))
  ELSE ServiceDispatch(Decided(r, tools, ServiceChoose(tools, m), m))

\* what follows the return of get_tools in its caller
AfterGetTools(r, tools, m) ==
  IF r.op = "get_tools" THEN Done(r, CatalogReturned(tools))
  ELSE RunQueryWithTools(r, tools, m)

\* get_tools up to its first await
GetTools(r, force_refresh, m) ==
  LET r1 == [r EXCEPT !.force_refresh = force_refresh, !.t0 = now]
  IN IF ~mcp_enabled THEN AfterGetTools(r1, {}, m)
     ELSE IF NeedsRefresh(tools_cache, cache_timestamp, force_refresh, now)
       THEN OpenSession(r1, "refresh")
     ELSE AfterGetTools(r1, CacheOrEmpty(tools_cache), m)

\* get_mcp_session returned None to its caller; with the empty catalog that
\* get_tools then returns, run_query stops before the model call, so m, what
\* the model would do, is never looked at
SessionUnavailable(r, m) ==
  IF r.ctx = "refresh" THEN AfterGetTools(r, {}, m)
  ELSE Done(r, Envelope(r.choice, TextPayload(Msg("Failed to connect to MCP server")),
                        JStr("mcp_connection_failed")))

\* (a chat handler that forgets .strip())
ReadMessageUnstripped(body) ==
  IF ~body.isObj THEN [out |-> "raise", text |-> <<>>]
  ELSE LET v == IF body.hasMsg THEN body.msg ELSE None IN
       IF ~Truthy(v) THEN [out |-> "empty", text |-> <<>>]
       ELSE IF v.k # "text" THEN [out |-> "raise", text |-> <<>>]
       ELSE [out |-> "ok", text |-> v.v]

\* "(body.get("message") or "").strip()" and the empty check of both chat
\* handlers: "raise" (an exception), "empty", or "ok" with the text
ReadMessage(body) ==
  IF ~body.isObj THEN [out |-> "raise", text |-> <<>>]
  ELSE LET v == IF body.hasMsg THEN body.msg ELSE None IN
       IF ~Truthy(v) THEN [out |-> "empty", text |-> <<>>]
       ELSE IF v.k # "text" THEN [out |-> "raise", text |-> <<>>]
       ELSE LET t == StripChars(v.v) IN
            IF t = <<>> THEN [out |-> "empty", text |-> <<>>]
            ELSE [out |-> "ok", text |-> t]

\* POST /chat of the service, up to the first await of run_query
ChatBegin(p) ==
  /\ app = "service"
  /\ req[p].pc = "idle"
  /\ \E body \in Bodies, m \in ModelOutcomes :
       LET r == Arrived("chat", body)
           msg == ReadMessage(body)
       IN req' = [req EXCEPT ![p] =
            CASE msg.out = "raise" -> Done(r, HttpError(500, "exception"))
              [] msg.out = "empty" -> Done(r, HttpError(400, "Message cannot be empty"))
              [] OTHER -> GetTools([r EXCEPT !.user_msg = msg.text], FALSE, m)]
  /\ UNCHANGED <<app, mcp_enabled, tools_cache, cache_timestamp, mcp_available, now, ticks>>

\* a direct call of get_tools (GET /health, GET /tools, the lifespan hook,
\* which pass no force_refresh, and any caller of the method that does)
GetToolsBegin(p) ==
  /\ app = "service"
  /\ req[p].pc = "idle"
  /\ \E force_refresh \in BOOLEAN :
       req' = [req EXCEPT ![p] =
                 GetTools(Arrived("get_tools", NotAnObject), force_refresh, ModelRaised)]
  /\ UNCHANGED <<app, mcp_enabled, tools_cache, cache_timestamp, mcp_available, now, ticks>>

\* get_mcp_session resumes from "await client.__aenter__()".  The context
\* is entered by hand; no line of the service calls its __aexit__.
ServiceOpen(p) ==
  /\ req[p].pc = "open"
  /\ \E ok \in BOOLEAN :
       IF ok THEN /\ req' = [req EXCEPT ![p].pc = "probe", ![p].live = @ + 1]
                  /\ UNCHANGED mcp_available
       ELSE /\ req' = [req EXCEPT ![p] =
                 SessionUnavailable(
                   [req[p] EXCEPT !.outcomes = Append(@, "connect_failed")], ModelRaised)]
            /\ mcp_available' = FALSE
  /\ UNCHANGED <<app, mcp_enabled, tools_cache, cache_timestamp, now, ticks>>

\* get_mcp_session resumes from its probing "await session.list_tools()"
ServiceProbe(p) ==
  /\ req[p].pc = "probe"
  /\ \E ok \in BOOLEAN :
       LET r == [req[p] EXCEPT !.lists = @ + 1] IN
       IF ok THEN /\ req' = [req EXCEPT ![p] =
                       [r EXCEPT !.pc = IF r.ctx = "refresh" THEN "list" ELSE "call",
                                 !.outcomes = Append(@, "ok")]]
                  /\ UNCHANGED mcp_available
       ELSE /\ req' = [req EXCEPT ![p] =
                 SessionUnavailable([r EXCEPT !.outcomes = Append(@, "init_failed")],
                                    ModelRaised)]
            /\ mcp_available' = FALSE
  /\ UNCHANGED <<app, mcp_enabled, tools_cache, cache_timestamp, now, ticks>>

\* what the model may do for request r: only run_query calls it
ModelFor(r) == IF r.op = "chat" THEN ModelOutcomes ELSE {ModelRaised}

\* (a get_tools that drops the cache when list_tools raises)
ServiceListDroppingCache(p) ==
  /\ req[p].pc = "list"
  /\ \E m \in ModelFor(req[p]) :
       LET r == Issued([req[p] EXCEPT !.lists = @ + 1], "list_tools") IN
       \/ \E names \in RemoteCatalogs :
            /\ tools_cache' = Cached(names)
            /\ cache_timestamp' = At(r.t0)
            /\ mcp_available' = TRUE
            /\ req' = [req EXCEPT ![p] =
                         AfterGetTools([r EXCEPT !.stores = @ + 1,
                                                 !.listed_on = Append(@, r.opens)],
                                       names, m)]
       \/ /\ req' = [req EXCEPT ![p] = AfterGetTools(r, {}, m)]
          /\ tools_cache' = Absent
          /\ cache_timestamp' = NoTime
          /\ UNCHANGED mcp_available
  /\ UNCHANGED <<app, mcp_enabled, now, ticks>>

\* (a get_tools that stores a fetched catalog only while none is cached)
ServiceListKeepingFirst(p) ==
  /\ req[p].pc = "list"
  /\ \E m \in ModelFor(req[p]) :
       LET r == Issued([req[p] EXCEPT !.lists = @ + 1], "list_tools") IN
       \/ \E names \in RemoteCatalogs :
            /\ tools_cache' = IF tools_cache.some THEN tools_cache ELSE Cached(names)
            /\ cache_timestamp' = At(r.t0)
            /\ mcp_available' = TRUE
            /\ req' = [req EXCEPT ![p] =
                         AfterGetTools([r EXCEPT !.stores = @ + 1,
                                                 !.listed_on = Append(@, r.opens)],
                                       names, m)]
       \/ /\ req' = [req EXCEPT ![p] = AfterGetTools(r, {}, m)]
          /\ UNCHANGED <<tools_cache, cache_timestamp, mcp_available>>
  /\ UNCHANGED <<app, mcp_enabled, now, ticks>>

\* get_tools resumes from "await session.list_tools()"
ServiceList(p) ==
  /\ req[p].pc = "list"
  /\ \E m \in ModelFor(req[p]) :
       LET r == Issued([req[p] EXCEPT !.lists = @ + 1], "list_tools") IN
       \/ \E names \in RemoteCatalogs :
            /\ tools_cache' = Cached(names)
            /\ cache_timestamp' = At(r.t0)
            /\ mcp_available' = TRUE
            /\ req' = [req EXCEPT ![p] =
                         AfterGetTools([r EXCEPT !.stores = @ + 1,
                                                 !.listed_on = Append(@, r.opens)],
                                       names, m)]
       \/ /\ req' = [req EXCEPT ![p] = AfterGetTools(r, {}, m)]
          /\ UNCHANGED <<tools_cache, cache_timestamp, mcp_available>>
  /\ UNCHANGED <<app, mcp_enabled, now, ticks>>

\* run_query resumes from "await session.call_tool(tool_name, arguments=args)"
ServiceCall(p) ==
  /\ req[p].pc = "call"
  /\ LET r == Issued([req[p] EXCEPT !.calls = Append(@, req[p].tool_name),
                                    !.called_on = Append(@, req[p].opens)],
                     "call_tool") IN
     \/ \E res \in CallResults :
          req' = [req EXCEPT ![p] = Done([r EXCEPT !.res = res],
                                         Envelope(r.choice, ServicePayload(res), None))]
     \/ req' = [req EXCEPT ![p] =
                  Done(r, Envelope(r.choice, TextPayload(Msg("Tool execution failed")),
                                   JStr("tool_execution_failed")))]
  /\ UNCHANGED <<app, mcp_enabled, tools_cache, cache_timestamp, mcp_available, now, ticks>>

\* ------------------------------------------------- the stateless bridge
\* _connect_session moves to the next transport of its loop, or raises
\* RuntimeError after the last one; chat answers an exception with HTTP 500
NextTransport(r) ==
  IF Len(r.attempts) < Len(BridgeTransports)
    THEN [r EXCEPT !.pc = "b_connect",
                   !.attempts = Append(@, BridgeTransports[Len(r.attempts) + 1])]
  ELSE Done(r, HttpError(500, "Cannot connect to MCP"))

\* "async with await _connect_session() as session" begins
ConnectSession(r) == NextTransport([r EXCEPT !.opens = @ + 1])

\* POST /chat of the bridge, up to the first await of _connect_session
BridgeBegin(p) ==
  /\ app = "bridge"
  /\ req[p].pc = "idle"
  /\ \E body \in Bodies :
       LET r == Arrived("bridge", body)
           msg == ReadMessage(body)
       IN req' = [req EXCEPT ![p] =
            CASE msg.out = "raise" -> Done(r, HttpError(500, "exception"))
              [] msg.out = "empty" -> Done(r, HttpError(400, "empty_message"))
              [] OTHER -> ConnectSession([r EXCEPT !.user_msg = msg.text])]
  /\ UNCHANGED <<app, mcp_enabled, tools_cache, cache_timestamp, mcp_available, now, ticks>>

\* _connect_session resumes from entering "async with client(MCP_URL)"
BridgeConnect(p) ==
  /\ req[p].pc = "b_connect"
  /\ \E ok \in BOOLEAN :
       req' = [req EXCEPT ![p] =
                 IF ok THEN [req[p] EXCEPT !.pc = "b_init", !.live = @ + 1,
                                           !.exited = FALSE]
                 ELSE NextTransport([req[p] EXCEPT !.outcomes = Append(@, "connect_failed")])]
  /\ UNCHANGED <<app, mcp_enabled, tools_cache, cache_timestamp, mcp_available, now, ticks>>

\* _connect_session resumes from "await session.initialize()".  Either way
\* the two "async with" blocks are left, which exits the session and its
\* transport.  On success the session is returned out of them, and
\* _run_query enters the returned session again: entering may raise
\* (reenter = FALSE).
BridgeInit(p) ==
  /\ req[p].pc = "b_init"
  /\ \E ok \in BOOLEAN, reenter \in BOOLEAN :
       LET r == [req[p] EXCEPT !.live = @ - 1, !.exited = TRUE] IN
       req' = [req EXCEPT ![p] =
                 IF ~ok THEN NextTransport([r EXCEPT !.outcomes = Append(@, "init_failed")])
                 ELSE IF reenter THEN [r EXCEPT !.pc = "b_list", !.outcomes = Append(@, "ok"),
                                                !.live = @ + 1]
                 ELSE Done([r EXCEPT !.outcomes = Append(@, "ok")],
                           HttpError(500, "exception"))]
  /\ UNCHANGED <<app, mcp_enabled, tools_cache, cache_timestamp, mcp_available, now, ticks>>

\* _run_query leaves its "async with ... as session" block by a return or
\* by an exception: the session is exited
BridgeDone(r, resp) == Done([r EXCEPT !.live = @ - 1, !.exited = TRUE], resp)

BridgeRejected(r) == BridgeDone(r, Envelope(r.choice, None, JStr("no_tool_selected")))

\* _run_query, lines 93-98: from the decision to the next await; the
\* TypeError of an unhashable name reaches chat, which answers HTTP 500
BridgeDispatch(r) ==
  IF ~Truthy(r.tool_name) THEN BridgeRejected(r)
  ELSE IF ~Hashable(r.tool_name) THEN BridgeDone(r, HttpError(500, "exception"))
  ELSE IF ~InCatalog(r.tool_name, r.tools) THEN BridgeRejected(r)
  ELSE [r EXCEPT !.pc = "b_call"]

\* _run_query between "await session.list_tools()" and its next await
BridgeSelect(r, tools, m) ==
  IF m.raised THEN BridgeDone([r EXCEPT !.tools = tools, !.model = Append(@, m)],
                              HttpError(500, "exception"))
  ELSE BridgeDispatch(Decided(r, tools, BridgeChoose(r.user_msg, m), m))

\* _run_query resumes from "await session.list_tools()"
BridgeList(p) ==
  /\ req[p].pc = "b_list"
  /\ LET r == Issued([req[p] EXCEPT !.lists = @ + 1], "list_tools") IN
     \/ \E names \in RemoteCatalogs, m \in ModelOutcomes :
          req' = [req EXCEPT ![p] =
                    BridgeSelect([r EXCEPT !.listed_on = Append(@, r.opens)], names, m)]
     \/ req' = [req EXCEPT ![p] = BridgeDone(r, HttpError(500, "exception"))]
  /\ UNCHANGED <<app, mcp_enabled, tools_cache, cache_timestamp, mcp_available, now, ticks>>

\* _run_query resumes from "await session.call_tool(name, arguments=args)"
BridgeCall(p) ==
  /\ req[p].pc = "b_call"
  /\ LET r == Issued([req[p] EXCEPT !.calls = Append(@, req[p].tool_name),
                                    !.called_on = Append(@, req[p].opens)],
                     "call_tool") IN
     \/ \E res \in CallResults :
          req' = [req EXCEPT ![p] = BridgeDone([r EXCEPT !.res = res],
                                               Envelope(r.choice, BridgePayload(res), None))]
     \/ req' = [req EXCEPT ![p] = BridgeDone(r, HttpError(500, "exception"))]
  /\ UNCHANGED <<app, mcp_enabled, tools_cache, cache_timestamp, mcp_available, now, ticks>>

\* ------------------------------------------------------- the test script
\* A URL is the sequence of its parts: "H" (scheme, host and port), "/" and
\* path segments.
UrlHints == {<<"H", "/", "mcp">>, <<"H">>, <<"H", "/">>, <<"H", "/", "mcp", "/">>}
EndsWithMcp(url) ==
  Len(url) >= 2 /\ url[Len(url) - 1] = "/" /\ url[Len(url)] = "mcp"
\* url.rstrip("/")
RECURSIVE RStripSlash(_)
RStripSlash(url) ==
  IF url # <<>> /\ url[Len(url)] = "/" THEN RStripSlash(Slice(url, 1, Len(url) - 1))
  ELSE url
\* connect_and_run, lines 108-112: the hint, then the hint without its
\* final "/mcp" or with "/mcp" appended
Candidates(url_hint) ==
  <<url_hint,
    IF EndsWithMcp(url_hint) THEN Slice(url_hint, 1, Len(url_hint) - 2)
    ELSE RStripSlash(url_hint) \o <<"/", "mcp">>>>

\* the two clients of each round of the loop, in the order of its two
\* try blocks
ScriptTransports == <<"streamable_http", "sse">>

\* RuntimeError("Could not connect ... Last error: {last_err}") leaves
\* connect_and_run
ScriptRaised(last_err) ==
  [kind |-> "raised", status |-> 0, choice |-> None, result |-> None,
   error |-> JStr(last_err), listed |-> FALSE, available_tools |-> {}]
\* connect_and_run returns after run_workflow
ScriptReturned ==
  [kind |-> "returned", status |-> 0, choice |-> None, result |-> None,
   error |-> None, listed |-> FALSE, available_tools |-> {}]

\* the next try block of the loop, or the raise after the loop
ScriptNext(r) ==
  LET n == Len(r.tried) IN
  IF n < Len(r.candidates) * Len(ScriptTransports)
    THEN [r EXCEPT !.pc = "s_connect",
                   !.tried = Append(@, [base |-> r.candidates[(n \div 2) + 1],
                                        transport |-> ScriptTransports[(n % 2) + 1]])]
  ELSE Done(r, ScriptRaised(r.last_err))

\* "except Exception as e: last_err = e" of either try block: the contexts
\* entered in the block have been exited
ScriptCaught(r, e) ==
  ScriptNext([r EXCEPT !.last_err = e, !.live = 0, !.exited = (r.live > 0)])

\* main: connect_and_run(url_hint) up to its first await
ScriptBegin(p) ==
  /\ app = "script"
  /\ req[p].pc = "idle"
  /\ \E url_hint \in UrlHints :
       req' = [req EXCEPT ![p] =
                 ScriptNext([Arrived("script", NotAnObject) EXCEPT
                               !.candidates = Candidates(url_hint)])]
  /\ UNCHANGED <<app, mcp_enabled, tools_cache, cache_timestamp, mcp_available, now, ticks>>

\* connect_and_run resumes from entering "async with <client>(base)"
ScriptConnect(p) ==
  /\ req[p].pc = "s_connect"
  /\ \E ok \in BOOLEAN :
       req' = [req EXCEPT ![p] =
                 IF ok THEN [req[p] EXCEPT !.pc = "s_init", !.live = 1, !.exited = FALSE]
                 ELSE ScriptCaught([req[p] EXCEPT !.ended = Append(@, "connect_failed")],
                                   "connect_failed")]
  /\ UNCHANGED <<app, mcp_enabled, tools_cache, cache_timestamp, mcp_available, now, ticks>>

\* connect_and_run resumes from "await session.initialize()"
ScriptInit(p) ==
  /\ req[p].pc = "s_init"
  /\ \E ok \in BOOLEAN :
       req' = [req EXCEPT ![p] =
                 IF ok THEN [req[p] EXCEPT !.pc = "s_list", !.ended = Append(@, "ok"),
                                           !.opens = @ + 1]
                 ELSE ScriptCaught([req[p] EXCEPT !.ended = Append(@, "init_failed")],
                                   "init_failed")]
  /\ UNCHANGED <<app, mcp_enabled, tools_cache, cache_timestamp, mcp_available, now, ticks>>

\* run_workflow resumes from "await session.list_tools()"; an exception
\* leaves run_workflow and is caught by the try block around it
ScriptList(p) ==
  /\ req[p].pc = "s_list"
  /\ LET r == Issued([req[p] EXCEPT !.lists = @ + 1], "list_tools") IN
     \/ \E names \in RemoteCatalogs :
          req' = [req EXCEPT ![p] = [r EXCEPT !.pc = "s_demos", !.tools = names]]
     \/ req' = [req EXCEPT ![p] = ScriptCaught(r, "list_tools_failed")]
  /\ UNCHANGED <<app, mcp_enabled, tools_cache, cache_timestamp, mcp_available, now, ticks>>

\* run_workflow, the loop over its demo questions: call_tool is guarded,
\* the model call of choose_tool_with_ollama is not; the loop ends and
\* connect_and_run returns, or the model call raises
ScriptDemos(p) ==
  /\ req[p].pc = "s_demos"
  /\ \/ req' = [req EXCEPT ![p] = Done([req[p] EXCEPT !.live = 0, !.exited = TRUE], ScriptReturned)]
     \/ req' = [req EXCEPT ![p] = ScriptCaught(req[p], "model_failed")]
  /\ UNCHANGED <<app, mcp_enabled, tools_cache, cache_timestamp, mcp_available, now, ticks>>

\* the response leaves; the request's objects are dropped
Deliver(p) ==
  /\ req[p].pc = "done"
  /\ req' = [req EXCEPT ![p] = Idle]
  /\ UNCHANGED <<app, mcp_enabled, tools_cache, cache_timestamp, mcp_available, now, ticks>>

\* Time passes; only the service reads the clock.
Tick ==
  /\ app = "service"
  /\ ticks < MaxTicks
  /\ \E d \in Advances : now' = now + d
  /\ ticks' = ticks + 1
  /\ UNCHANGED <<app, mcp_enabled, tools_cache, cache_timestamp, mcp_available, req>>

\* Requests served one at a time: the event loop has one coroutine in
\* flight, the next request begins when its response has left.
Serving == {"r1"}

Next ==
  \/ \E p \in Serving : ChatBegin(p)
  \/ \E p \in Serving : GetToolsBegin(p)
  \/ \E p \in Procs : ServiceOpen(p)
  \/ \E p \in Procs : ServiceProbe(p)
  \/ \E p \in Procs : ServiceList(p)
  \/ \E p \in Procs : ServiceCall(p)
  \/ \E p \in Serving : BridgeBegin(p)
  \/ \E p \in Procs : BridgeConnect(p)
  \/ \E p \in Procs : BridgeInit(p)
  \/ \E p \in Procs : BridgeList(p)
  \/ \E p \in Procs : BridgeCall(p)
  \/ \E p \in Serving : ScriptBegin(p)
  \/ \E p \in Procs : ScriptConnect(p)
  \/ \E p \in Procs : ScriptInit(p)
  \/ \E p \in Procs : ScriptList(p)
  \/ \E p \in Procs : ScriptDemos(p)
  \/ \E p \in Procs : Deliver(p)
  \/ Tick

Spec == Init /\ [][Next]_vars

\* Two concurrent get_tools calls on the one ChatbotService (GET /health,
\* GET /tools and the first step of every run_query): the event loop
\* switches coroutines at each await, so the steps of the two calls
\* interleave freely, and the clock moves in between.
InitRefreshing == Init /\ app = "service" /\ mcp_enabled

NextRefreshing ==
  \/ \E p \in Procs : GetToolsBegin(p)
  \/ \E p \in Procs : ServiceOpen(p)
  \/ \E p \in Procs : ServiceProbe(p)
  \/ \E p \in Procs : ServiceList(p)
  \/ Tick

SpecRefreshing == InitRefreshing /\ [][NextRefreshing]_vars

\* Every external call returns or fails: a coroutine of the service that is
\* suspended at an await of get_mcp_session, get_tools or run_query (the
\* session open, its probe, list_tools, call_tool; the model call is
\* synchronous, inside the step that follows list_tools) is resumed.
Resumes(p) == ServiceOpen(p) \/ ServiceProbe(p) \/ ServiceList(p) \/ ServiceCall(p)

SpecLive == Spec /\ \A p \in Procs : WF_vars(Resumes(p))

\* ------------------------------------------------------------- the claims
\* the decision of r names no tool of the catalog obtained for the request
ToolAbsent(r) ==
  \/ r.tool_name = None
  \/ r.tool_name.k # "str"
  \/ r.tool_name.v \notin r.tools

\* C1 (as claimed, for ChatbotService.run_query): once a decision is made,
\* a decision whose tool is null or no key of the request's catalog ends the
\* request with error "no_tool_selected" and the list of the available
\* tools, without a session for the invocation and without call_tool; and
\* call_tool is only ever given a name that is a key of that catalog.
C1_AbsentToolIsNoToolSelected ==
  \A p \in Procs :
    LET r == req[p] IN
    (r.op = "chat" /\ r.model # <<>> /\ IsDict(r.choice)) =>
      /\ ToolAbsent(r) =>
           /\ r.pc = "done"
           /\ r.resp.kind = "envelope"
           /\ r.resp.error = JStr("no_tool_selected")
           /\ r.resp.listed
           /\ r.resp.available_tools = r.tools
           /\ r.ctx # "invoke"
           /\ r.calls = <<>>
      /\ \A i \in 1..Len(r.calls) : ~ToolAbsent([r EXCEPT !.tool_name = r.calls[i]])

\* the decision the claim C2 expects: the parsed output when it is an object
\* with both keys, the keyword fallback on the user text otherwise
ClaimedDecision(parsed, m, user_msg) ==
  IF ~m.raised /\ IsDict(parsed) /\ HasKey(parsed, "tool") /\ HasKey(parsed, "arguments")
    THEN parsed
  ELSE HeuristicSelect(user_msg)

\* the model output of request r as its own extractor reads it
Extracted(r) ==
  IF r.op = "chat" THEN ServiceForceJson(Strip(r.model[1].raw))
  ELSE BridgeForceJson(Strip(r.model[1].raw))

\* C2 (as claimed): once the model has been called, the request has a
\* decision: the tool and arguments of the model's parsed output when that is
\* an object with a tool and an arguments key, and in every other case (the
\* call raised, nothing could be extracted, a key is missing) those of the
\* keyword fallback on the user text.
C2_DecisionIsModelOrFallback ==
  \A p \in Procs :
    LET r == req[p] IN
    (r.op \in {"chat", "bridge"} /\ r.model # <<>>) =>
      /\ IsDict(r.choice)
      /\ r.tool_name = ClaimedDecision(Extracted(r), r.model[1], r.user_msg).v.tool
      /\ r.args = ClaimedDecision(Extracted(r), r.model[1], r.user_msg).v.arguments

\* the error kinds an envelope may carry
ErrorKinds ==
  {JStr("mcp_unavailable"), JStr("mcp_disabled"), JStr("no_tool_selected"),
   JStr("mcp_connection_failed"), JStr("tool_execution_failed")}

\* the model, if it answered, answered with a decision the code can read
ReadableDecision(r) ==
  \/ r.model = <<>>
  \/ r.model[1].raised
  \/ (IsDict(r.choice) /\ Hashable(r.tool_name))

\* C3 (as claimed): a request with a non-empty message ends, whatever remote
\* call failed, in an envelope whose error is null or one of the error
\* kinds, never in an HTTP 500 response.
C3_RemoteFailuresBecomeEnvelopes ==
  \A p \in Procs :
    LET r == req[p] IN
    (r.pc = "done" /\ r.op \in {"chat", "bridge"} /\ r.user_msg # <<>> /\ ReadableDecision(r)) =>
      /\ r.resp.kind = "envelope"
      /\ r.resp.status = 200
      /\ r.resp.error \in ErrorKinds \cup {None}

\* a text payload without a text
Contentless(result) == result.k = "text" /\ result.v = None
\* a text payload that explains a failure
Explanatory(result) == result.k = "text" /\ result.v.k = "msg"

\* C4 (as claimed): every returned envelope is a success (error null, a
\* result with content) or a failure (error set, result null or an
\* explanatory text).
C4_EnvelopeIsSuccessOrFailure ==
  \A p \in Procs :
    LET e == req[p].resp IN
    (req[p].pc = "done" /\ e.kind = "envelope") =>
      \/ e.error = None /\ e.result # None /\ ~Contentless(e.result)
      \/ e.error # None /\ (e.result = None \/ Explanatory(e.result))

\* get_tools was called for request r
CalledGetTools(r) == r.op = "get_tools" \/ (r.op = "chat" /\ r.user_msg # <<>>)
\* the age of the cache when get_tools was called for r
AgeAtCall(r) == r.t0 - r.pre.stamp.t
\* r called get_tools without force_refresh on a cache within its window
FreshAtCall(r) ==
  /\ CalledGetTools(r)
  /\ mcp_enabled
  /\ ~r.force_refresh
  /\ r.pre.cache.some
  /\ r.pre.stamp.some
  /\ AgeAtCall(r) \in 0..FreshnessWindow

\* C5: a get_tools call without force_refresh on a cache no older than 300
\* seconds returns the cached catalog, empty or not, and fetches nothing: it
\* opens no session, calls list_tools not once and leaves the cache as it is.
C5_FreshCacheServedWithoutFetch ==
  \A p \in Procs :
    LET r == req[p] IN
    FreshAtCall(r) =>
      /\ r.stores = 0
      /\ r.ctx # "refresh"
      /\ tools_cache = r.pre.cache
      /\ cache_timestamp = r.pre.stamp
      /\ r.op = "get_tools" =>
           /\ r.pc = "done"
           /\ r.resp = CatalogReturned(r.pre.cache.names)
           /\ r.opens = 0
           /\ r.lists = 0
      /\ r.op = "chat" =>
           /\ r.model # <<>> => r.tools = r.pre.cache.names
           /\ r.pre.cache.names = {} => r.pc = "done" /\ r.opens = 0 /\ r.lists = 0

\* C5, its case: a second call exactly 300 seconds after an empty catalog
\* was fetched has returned
C5_Witness ==
  \E p \in Procs :
    /\ req[p].op = "get_tools"
    /\ req[p].pc = "done"
    /\ FreshAtCall(req[p])
    /\ req[p].pre.cache.names = {}
    /\ AgeAtCall(req[p]) = FreshnessWindow

\* r called get_tools in one of the cases that ask for a refresh
StaleAtCall(r) ==
  /\ CalledGetTools(r)
  /\ mcp_enabled
  /\ \/ ~r.pre.cache.some
     \/ r.force_refresh
     \/ (r.pre.stamp.some /\ AgeAtCall(r) > FreshnessWindow)

\* C6 (as claimed): a get_tools call with no cache, with force_refresh, or
\* on a cache older than 300 seconds (however old) starts exactly one
\* refresh, and a successful refresh replaces the cache and stamps it.
C6_StaleCacheIsRefreshed ==
  \A p \in Procs :
    LET r == req[p] IN
    (r.op = "get_tools" /\ StaleAtCall(r)) =>
      /\ r.opens = 1
      /\ r.stores <= 1
      /\ (r.pc = "done" /\ r.stores = 1) =>
           tools_cache.some /\ cache_timestamp = At(r.t0)

\* the refresh that get_tools began for r has failed
RefreshFailed(r) == r.pc = "done" /\ r.ctx = "refresh" /\ r.stores = 0

\* C7: after a refresh that failed (the session could not be opened, or
\* list_tools raised) tools_cache and cache_timestamp have the values they
\* had when the call began.
C7_FailedRefreshKeepsCache ==
  \A p \in Procs :
    RefreshFailed(req[p]) =>
      /\ tools_cache = req[p].pre.cache
      /\ cache_timestamp = req[p].pre.stamp

\* C7, its case: a refresh of a cached, non-empty catalog failed at list_tools
C7_Witness ==
  \E p \in Procs :
    /\ RefreshFailed(req[p])
    /\ req[p].outcomes = <<"ok">>
    /\ req[p].pre.cache.some
    /\ req[p].pre.cache.names # {}
    /\ tools_cache = req[p].pre.cache

\* C8 (as claimed): a get_tools call whose refresh, started because the
\* cache had expired, fails while a previous catalog is cached returns that
\* previous catalog.
C8_FailedRefreshReturnsPrevious ==
  \A p \in Procs :
    (/\ req[p].op = "get_tools"
     /\ ~req[p].force_refresh
     /\ RefreshFailed(req[p])
     /\ req[p].pre.cache.some) =>
      req[p].resp = CatalogReturned(req[p].pre.cache.names)

Failed == {"connect_failed", "init_failed"}

\* the response of r reports that no session could be established
ConnectionFailureReported(r) ==
  /\ r.pc = "done"
  /\ \/ r.resp = HttpError(500, "Cannot connect to MCP")
     \/ (r.resp.kind = "envelope" /\ r.resp.error = JStr("mcp_connection_failed"))

BlankMessage(body) ==
  /\ body.isObj
  /\ \/ ~body.hasMsg
     \/ body.msg = None
     \/ (body.msg.k = "text" /\ \A i \in 1..Len(body.msg.v) : body.msg.v[i] \in Space)

\* C10: a chat request whose message is missing, empty or whitespace-only is
\* answered with HTTP 400 and nothing else happens for it: no session, no
\* list_tools, no model call, no call_tool, and the cache is as it was.
C10_BlankMessageRejected ==
  \A p \in Procs :
    LET r == req[p] IN
    (r.op \in {"chat", "bridge"} /\ BlankMessage(r.body)) =>
      /\ r.pc = "done"
      /\ r.resp.kind = "http_error"
      /\ r.resp.status = 400
      /\ r.opens = 0 /\ r.lists = 0 /\ r.stores = 0
      /\ r.model = <<>> /\ r.calls = <<>>
      /\ tools_cache = r.pre.cache
      /\ cache_timestamp = r.pre.stamp

\* C10, its case: the service rejected a whitespace-only message while it
\* held a cached catalog
C10_Witness ==
  \E p \in Procs :
    /\ req[p].op = "chat"
    /\ req[p].body = Message(Text(<<" ", "\t">>))
    /\ req[p].resp.status = 400
    /\ tools_cache.some

\* C11: with tool use disabled (MCP_ENABLED false) every run_query ends in
\* an envelope with error "mcp_disabled" and an explanatory text, and the
\* request opens no session on any transport, lists no tools, calls no
\* model and no tool.
C11_DisabledIsReported ==
  \A p \in Procs :
    LET r == req[p] IN
    (app = "service" /\ ~mcp_enabled /\ r.op = "chat" /\ r.user_msg # <<>>) =>
      /\ r.pc = "done"
      /\ r.resp.kind = "envelope"
      /\ r.resp.error = JStr("mcp_disabled")
      /\ Explanatory(r.resp.result)
      /\ r.opens = 0 /\ r.attempts = <<>> /\ r.lists = 0
      /\ r.model = <<>> /\ r.calls = <<>>

\* C11, its case: "List all hosts" was asked of a service with tool use
\* disabled
C11_Witness ==
  \E p \in Procs :
    /\ ~mcp_enabled
    /\ req[p].op = "chat"
    /\ req[p].user_msg = ListAllHosts
    /\ req[p].resp.error = JStr("mcp_disabled")

\* the catalog fetch of request r found the tool host unreachable: every
\* configured transport failed to connect
HostUnreachable(r) ==
  /\ r.pc = "done"
  /\ r.opens = 1
  /\ r.op = "chat" => r.ctx = "refresh"
  /\ Len(r.outcomes) = (IF r.op = "bridge" THEN Len(BridgeTransports)
                        ELSE Len(ServiceTransports))
  /\ \A i \in 1..Len(r.outcomes) : r.outcomes[i] = "connect_failed"

\* C12 (as claimed): a request that finds the tool host unreachable on every
\* transport ends in an envelope with error "mcp_unavailable" and an
\* explanatory text, without a model call and without a tool call.
C12_UnreachableIsUnavailable ==
  \A p \in Procs :
    LET r == req[p] IN
    (r.op \in {"chat", "bridge"} /\ HostUnreachable(r)) =>
      /\ r.resp.kind = "envelope"
      /\ r.resp.error = JStr("mcp_unavailable")
      /\ Explanatory(r.resp.result)
      /\ r.model = <<>> /\ r.calls = <<>>

\* C13 (as claimed): once the tool of the decision has been found in the
\* catalog, a failure of the invocation is an envelope that keeps the
\* choice: "mcp_connection_failed" without any call_tool when the session
\* for the invocation cannot be opened, and "tool_execution_failed" with an
\* explanatory text when call_tool raises.
C13_InvocationFailureIsEnvelope ==
  \A p \in Procs :
    LET r == req[p] IN
    (r.op \in {"chat", "bridge"} /\ r.pc = "done") =>
      /\ (r.ctx = "invoke" /\ r.calls = <<>>) =>
           /\ r.resp.kind = "envelope"
           /\ r.resp.error = JStr("mcp_connection_failed")
           /\ r.resp.choice = r.choice
      /\ r.calls # <<>> =>
           /\ r.resp.kind = "envelope"
           /\ r.resp.choice = r.choice
           /\ \/ r.resp.error = None
              \/ /\ r.resp.error = JStr("tool_execution_failed")
                 /\ Explanatory(r.resp.result)

\* the result C14 expects for a returned call_tool result: the structured
\* payload when one is present and non-empty, else the text fragments joined
\* by newlines, else the placeholder text
ClaimedPayload(res) ==
  IF res.structuredContent # None /\ Truthy(res.structuredContent)
    THEN StructuredPayload(res.structuredContent)
  ELSE IF \E i \in 1..Len(res.content) : res.content[i].hasText
    THEN TextPayload(Text(Join(Texts(res.content))))
  ELSE TextPayload(Msg("No content returned"))

\* C14 (as claimed): the envelope of a successful tool call carries the
\* normalized result: {structured: payload} for a present, non-empty
\* structured payload, otherwise the text fragments joined in order by
\* newlines, and "No content returned" when there is neither; never a null
\* text.
C14_ResultIsNormalized ==
  \A p \in Procs :
    LET r == req[p] IN
    (r.pc = "done" /\ r.calls # <<>> /\ r.resp.kind = "envelope" /\ r.resp.error = None) =>
      /\ r.resp.result = ClaimedPayload(r.res)
      /\ ~Contentless(r.resp.result)

\* the text mentions the word, in whatever case
Mentions(text, word) == Contains(Lower(text), word)
MentionsVersion(text) ==
  Mentions(text, <<"v", "e", "r", "s", "i", "o", "n">>) \/ Mentions(text, <<"a", "p", "i">>)
MentionsProblem(text) ==
  \/ Mentions(text, <<"p", "r", "o", "b", "l", "e", "m">>)
  \/ Mentions(text, <<"i", "n", "c", "i", "d", "e", "n", "t">>)
  \/ Mentions(text, <<"a", "l", "e", "r", "t">>)
MentionsHost(text) == Mentions(text, <<"h", "o", "s", "t">>)

\* the decision of request r came from the keyword fallback
FellBack(r) ==
  /\ r.op = "bridge"
  /\ r.model # <<>>
  /\ ~r.model[1].raised
  /\ ~(/\ IsDict(Extracted(r))
       /\ HasKey(Extracted(r), "tool")
       /\ HasKey(Extracted(r), "arguments"))

\* C15: the keyword fallback applies its rules in a fixed order, the first
\* match winning and case ignored: "version" or "api" gives apiinfo_version
\* with no arguments; else "problem", "incident" or "alert" gives
\* problem_get with {recent: true, limit: 5}; else "host" gives host_get
\* with no arguments; else no tool and no arguments.  A text with both
\* "version" and "host" never gives host_get.
C15_HeuristicPriority ==
  \A p \in Procs :
    LET r == req[p]
        t == r.user_msg
    IN FellBack(r) =>
      /\ MentionsVersion(t) =>
           r.tool_name = JStr("apiinfo_version") /\ r.args = EmptyDict
      /\ (~MentionsVersion(t) /\ MentionsProblem(t)) =>
           /\ r.tool_name = JStr("problem_get")
           /\ r.args = JObj([recent |-> JBool(TRUE), limit |-> JNum(5)])
      /\ (~MentionsVersion(t) /\ ~MentionsProblem(t) /\ MentionsHost(t)) =>
           r.tool_name = JStr("host_get") /\ r.args = EmptyDict
      /\ (~MentionsVersion(t) /\ ~MentionsProblem(t) /\ ~MentionsHost(t)) =>
           r.tool_name = None /\ r.args = EmptyDict
      /\ (Mentions(t, <<"v", "e", "r", "s", "i", "o", "n">>) /\ MentionsHost(t)) =>
           r.tool_name # JStr("host_get")

\* C15, its case: the fallback decided for " API version of host" and chose
\* the version tool
C15_Witness ==
  \E p \in Procs :
    /\ FellBack(req[p])
    /\ req[p].user_msg = StripChars(VersionOfHost)
    /\ req[p].tool_name = JStr("apiinfo_version")

\* the model answered request r with the encoding of object O, bare or in a
\* json fence
AnsweredWith(r, O) ==
  /\ r.model # <<>>
  /\ ~r.model[1].raised
  /\ r.model[1].raw \in {Dumps(O), Fenced(Dumps(O))}

\* C16: extracting the encoding of a JSON object gives back an equal object,
\* nested objects included, and gives the same when the encoding is wrapped
\* in a leading json fence and a trailing fence; this holds for the
\* extractor of the service and for that of the bridge.
C16_ExtractRoundTrip ==
  \A p \in Procs : \A O \in AnsweredObjects :
    AnsweredWith(req[p], O) =>
      /\ Extracted(req[p]) = O
      /\ (HasKey(O, "tool") /\ HasKey(O, "arguments")) => req[p].choice = O

\* C16, its case: a fenced decision with nested arguments was extracted and
\* became the choice of the request
C16_Witness ==
  \E p \in Procs :
    /\ req[p].model # <<>>
    /\ req[p].model[1].raw = Fenced(Dumps(HostGetWithArguments))
    /\ req[p].choice = HostGetWithArguments
    /\ req[p].args.v.limit = JNum(5)

\* C17 (as claimed): when the operation of a request has finished, every
\* session context it entered has been exited, whichever way it finished.
C17_SessionsClosed ==
  \A p \in Procs : req[p].pc = "done" => req[p].live = 0

\* C18 (as claimed): within a request the session on which the catalog was
\* listed is never a session on which a tool is called, and each listing and
\* each call has a session of its own.
C18_SessionPerOperation ==
  \A p \in Procs :
    LET r == req[p] IN
    /\ \A i \in 1..Len(r.listed_on) : \A j \in 1..Len(r.called_on) :
         r.listed_on[i] # r.called_on[j]
    /\ \A i, j \in 1..Len(r.called_on) : r.called_on[i] = r.called_on[j] => i = j
    /\ \A i, j \in 1..Len(r.listed_on) : r.listed_on[i] = r.listed_on[j] => i = j

\* a step in which the get_tools call of p stores the catalog it fetched
Stores(p) == req[p].pc = "list" /\ req'[p].stores = req[p].stores + 1

\* a step in which the get_tools call of p returns
Returns(p) == req[p].pc # "done" /\ req'[p].pc = "done" /\ req'[p].op = "get_tools"

\* what a step may do to the shared cache and to the catalogs handed out
CacheStep ==
  /\ \A p \in Procs :
       Stores(p) => /\ tools_cache' = Cached(req'[p].resp.available_tools)
                    /\ req'[p].resp.available_tools \in RemoteCatalogs
  /\ tools_cache' # tools_cache => \E p \in Procs : Stores(p)
  /\ \A p \in Procs :
       Returns(p) => \/ req'[p].resp.available_tools = CacheOrEmpty(tools_cache')
                     \/ /\ RefreshFailed(req'[p])
                        /\ req'[p].resp.available_tools = {}
  /\ \A p \in Procs :
       (req[p].pc = "done" /\ req'[p].pc = "done") => req'[p].resp = req[p].resp

\* C19: however the steps of concurrent get_tools calls interleave, the
\* cache only ever changes by a refresh storing the whole catalog it
\* fetched, so that the refresh that completes last leaves its catalog in
\* the cache; a call returns the whole catalog cached at that moment (or the
\* empty catalog when its refresh failed); and a catalog that was returned
\* is not changed by later refreshes.
C19_CacheReplacedWhole == [][CacheStep]_vars

\* C19, its case: two calls both began without a cache, both fetched, and
\* the catalogs they stored differ; the cache holds one of them whole
C19_Witness ==
  /\ \A p \in Procs :
       /\ req[p].pc = "done"
       /\ req[p].stores = 1
       /\ ~req[p].pre.cache.some
  /\ req["r1"].resp.available_tools = {"host_get"}
  /\ req["r2"].resp.available_tools = {"host_get", "apiinfo_version"}
  /\ tools_cache = Cached({"host_get"})

\* C20 (as claimed): within one chat request each step happens at most once
\* and in order: one catalog listing at most, then one model call at most,
\* then one tool call at most; the model is called only after a non-empty
\* catalog was obtained, the tool only after the model was called and the
\* decision's tool was found in the catalog, and no session establishment is
\* repeated.
C20_StepsOnceInOrder ==
  \A p \in Procs :
    LET r == req[p] IN
    r.op \in {"chat", "bridge"} =>
      /\ Len(r.listed_on) <= 1
      /\ Len(r.model) <= 1
      /\ Len(r.calls) <= 1
      /\ r.opens <= (IF r.op = "chat" THEN 2 ELSE 1)
      /\ r.model # <<>> => r.tools # {}
      /\ r.calls # <<>> => (r.model # <<>> /\ InCatalog(r.tool_name, r.tools))

\* the four attempts C21 expects for a candidate list: each base in turn,
\* streaming HTTP before SSE
ExpectedTries(candidates) ==
  <<[base |-> candidates[1], transport |-> "streamable_http"],
    [base |-> candidates[1], transport |-> "sse"],
    [base |-> candidates[2], transport |-> "streamable_http"],
    [base |-> candidates[2], transport |-> "sse"]>>

\* C21 (as claimed): connect_and_run tries the original endpoint over
\* streaming HTTP, then over SSE, then the variant endpoint over streaming
\* HTTP, then over SSE; it stops at the first attempt whose connect and
\* initialize succeed, and raises only after all four attempts failed to
\* connect or to initialize, with the failure of the last attempt.
C21_FourAttemptsInOrder ==
  \A p \in Procs :
    LET r == req[p] IN
    r.op = "script" =>
      /\ Len(r.tried) <= 4
      /\ r.tried = SubSeq(ExpectedTries(r.candidates), 1, Len(r.tried))
      /\ \A i \in 1..Len(r.ended) : r.ended[i] = "ok" => i = Len(r.tried)
      /\ (r.pc = "done" /\ r.resp.kind = "raised") =>
           /\ Len(r.ended) = 4
           /\ \A i \in 1..4 : r.ended[i] \in Failed
           /\ r.resp.error = JStr(r.ended[4])

\* the model text without surrounding blanks and code fences
FenceStripped(raw) ==
  LET s0 == Strip(raw)
      s1 == IF s0 # <<>> /\ Head(s0) = FenceJson THEN Tail(s0) ELSE s0
  IN IF s1 # <<>> /\ s1[Len(s1)] = Fence THEN Slice(s1, 1, Len(s1) - 1) ELSE s1

\* the text from its first "{" to its last "}", parsed; None when there is
\* no such text or it is not JSON
FirstToLastBrace(s) ==
  LET opens == Positions(s, LB)
      closes == Positions(s, RB)
  IN IF opens = {} \/ closes = {} \/ Max(closes) < Min(opens) THEN None
     ELSE json_loads(Slice(s, Min(opens), Max(closes))).val

\* C22 (as claimed): when the fence-stripped model text is not JSON as a
\* whole, the extractor returns what the text from the first "{" to the last
\* "}" parses to; so prose around one object, nested objects included,
\* yields that object and not null.
C22_GreedyBraceFallback ==
  \A p \in Procs :
    LET r == req[p] IN
    (r.op \in {"chat", "bridge"} /\ r.model # <<>> /\ ~r.model[1].raised
       /\ ~json_loads(FenceStripped(r.model[1].raw)).ok) =>
      Extracted(r) = FirstToLastBrace(FenceStripped(r.model[1].raw))

\* C23 (as claimed): whatever the model answered, the extractor of the
\* service returns null or an object, null when the text has no brace and
\* is not JSON, and the decision run_query reads its tool and arguments
\* from is an object.
C23_ExtractedIsObjectOrNull ==
  \A p \in Procs :
    LET r == req[p] IN
    (r.op = "chat" /\ r.model # <<>> /\ ~r.model[1].raised) =>
      /\ Extracted(r) = None \/ IsDict(Extracted(r))
      /\ (Positions(r.model[1].raw, LB) = {} /\ Positions(r.model[1].raw, RB) = {}
            /\ ~json_loads(FenceStripped(r.model[1].raw)).ok) => Extracted(r) = None
      /\ IsDict(r.choice)

\* C24 (as claimed): no list_tools and no call_tool is issued on a session
\* whose session context or transport context has been exited; a session
\* that a connect helper handed to its caller is open when first used.
C24_NoUseAfterExit ==
  \A p \in Procs : req[p].stale = <<>>

\* what a step may do to the stored time of the last refresh
StampStep ==
  /\ cache_timestamp.some => cache_timestamp'.some
  /\ (cache_timestamp.some /\ cache_timestamp'.some) =>
       cache_timestamp'.t >= cache_timestamp.t
  /\ \A p \in Procs : Stores(p) => cache_timestamp'.t >= req[p].t0

\* C25 (as claimed): however the steps of concurrent get_tools calls
\* interleave, the stored cache_timestamp never decreases, and a call that
\* stores its catalog stores a time that is not before the call's fetch
\* began.
C25_StampNeverDecreases == [][StampStep]_vars

\* request r of POST /chat passed the empty-message check and is under way
Accepted(r) == r.op = "chat" /\ r.user_msg # <<>> /\ r.pc # "done"

\* the error fields of the four terminal outcomes: success, degraded,
\* no tool, invocation failed
TerminalErrors ==
  {None, JStr("mcp_unavailable"), JStr("mcp_disabled"), JStr("no_tool_selected"),
   JStr("mcp_connection_failed"), JStr("tool_execution_failed")}

\* a finished request has returned one envelope with one of the four
\* outcomes, an unfinished one has returned nothing, and a suspended one can
\* be resumed whatever the other request is doing
OneOutcome ==
  \A p \in Procs :
    LET r == req[p] IN
    /\ (r.op = "chat" /\ r.user_msg # <<>> /\ r.pc = "done") =>
         /\ r.resp.kind = "envelope"
         /\ r.resp.error \in TerminalErrors
    /\ Accepted(r) => r.resp = NoResponse /\ ENABLED Resumes(p)

\* C26 (as claimed): provided every external call returns or fails, every
\* accepted request of the service finishes, with exactly one of the four
\* terminal outcomes and one envelope; it does not loop and does not wait
\* for another request.
C26_AcceptedRequestEnds ==
  /\ []OneOutcome
  /\ \A p \in Procs : Accepted(req[p]) ~> (req[p].pc = "done")
====
